---------------------------- MODULE Spec2Model ----------------------------
(***************************************************************************)
(* A model of the Quixe build script (build.py): the debug-line filter    *)
(* regex_debug, the function compress_source and the three module-level   *)
(* calls that build lib/glkote.min.js, lib/elkote.min.js and               *)
(* lib/quixe.min.js through the external minifier tools/rjsmin.py.         *)
(*                                                                         *)
(* Three specifications are defined:                                       *)
(*   FilterSpec  applies regex_debug.sub(b'', .) to every byte string of   *)
(*               up to MaxLen pieces, once and then again;                 *)
(*   Spec        runs build.py from its first statement to process exit,   *)
(*               together with the minifier processes and their pipes.     *)
(*   FairSpec    is Spec with the fairness the operating system gives      *)
(*               the two processes.                                        *)
(***************************************************************************)
EXTENDS Integers, Sequences, FiniteSets, TLC

(***************************************************************************)
(* Bounds of the model.                                                    *)
(***************************************************************************)
\* most pieces (single bytes or whole markers) an input of FilterSpec has
MaxLen == 6
\* capacity of the kernel pipe between build.py and the minifier
PipeCap == 2
\* size of the user-space buffer of proc.stdin under Python 3
BufSize == 2
\* most command-line arguments given to the story-file converter
MaxArgs == 3
\* most bytes the story file given to the converter holds
MaxBytes == 3

(***************************************************************************)
(* Bytes.  Byte strings are sequences of byte values.                      *)
(***************************************************************************)
\* b';' , the byte the marker b';;;' is made of
SEMI == 59
\* b'\n', the only byte '.' does not match and the byte '$' looks for
LF == 10
\* the alphabet of FilterSpec: ';', 'a', '\r', '\n'
Bytes == {SEMI, 97, 13, LF}
\* what the inputs of FilterSpec are put together from: one byte of the
\* alphabet, or the whole marker b';;;'
Pieces == {<<b>> : b \in Bytes} \cup {<<SEMI, SEMI, SEMI>>}

RECURSIVE SeqsUpTo(_, _)
SeqsUpTo(S, n) ==
    IF n = 0 THEN {<<>>}
    ELSE LET shorter == SeqsUpTo(S, n - 1)
         IN  shorter \cup {Append(s, b) : s \in {t \in shorter : Len(t) = n - 1}, b \in S}

RECURSIVE Flatten(_)
Flatten(ss) == IF ss = <<>> THEN <<>> ELSE Head(ss) \o Flatten(Tail(ss))

SetMax(S) == CHOOSE m \in S : \A k \in S : k <= m

(***************************************************************************)
(* regex_debug = re.compile(b';;;.+$', re.M)                               *)
(***************************************************************************)
\* the literal b';;;' of a two-byte marker: a wrong pattern
IsMarkerAt_TwoBytes(s, p) ==
    /\ p + 1 <= Len(s)
    /\ s[p] = SEMI
    /\ s[p + 1] = SEMI

\* the literal b';;;' matches at position p of s
IsMarkerAt(s, p) ==
    /\ p + 2 <= Len(s)
    /\ s[p] = SEMI
    /\ s[p + 1] = SEMI
    /\ s[p + 2] = SEMI

\* '.' matches every byte except the line feed: the position just after the
\* longest run of such bytes that starts at p
DotRunEnd(s, p) ==
    IF p > Len(s) THEN Len(s) + 1
    ELSE CHOOSE e \in p..(Len(s) + 1) :
            /\ e = Len(s) + 1 \/ s[e] = LF
            /\ \A k \in p..(e - 1) : s[k] # LF

\* '$' without re.M: only at the end of the string or before its last newline
EndAnchor_NoMultiline(s, e) ==
    \/ e = Len(s) + 1
    \/ e = Len(s) /\ s[e] = LF

\* '$' under re.M, with e the position after the bytes matched so far:
\* at the end of the string or just before a line feed
EndAnchor(s, e) ==
    \/ e = Len(s) + 1
    \/ s[e] = LF

\* the position after the match of b';;;.+$' that starts at p, or 0 when the
\* pattern does not match at p.  '.+' is greedy and gives bytes back until
\* '$' matches: the longest candidate wins.
MatchEnd(s, p) ==
    IF ~IsMarkerAt(s, p) THEN 0
    ELSE LET ends == {e \in (p + 4)..DotRunEnd(s, p + 3) : EndAnchor(s, e)}
         IN  IF ends = {} THEN 0 ELSE SetMax(ends)

\* sub() that replaces the leftmost match only (count=1): a wrong call
RECURSIVE SubFrom_FirstOnly(_, _)
SubFrom_FirstOnly(s, i) ==
    IF i > Len(s) THEN <<>>
    ELSE LET e == MatchEnd(s, i)
         IN  IF e > 0 THEN SubSeq(s, e, Len(s))
             ELSE <<s[i]>> \o SubFrom_FirstOnly(s, i + 1)

\* sub() scans from left to right; every non-overlapping match is replaced by
\* b'' and the scan goes on after the match
RECURSIVE SubFrom(_, _)
SubFrom(s, i) ==
    IF i > Len(s) THEN <<>>
    ELSE LET e == MatchEnd(s, i)
         IN  IF e > 0 THEN SubFrom(s, e)
             ELSE <<s[i]>> \o SubFrom(s, i + 1)

\* regex_debug.sub(b'', dat)
regex_debug_sub(s) == SubFrom(s, 1)

(***************************************************************************)
(* The catalog: the three module-level calls of compress_source.           *)
(***************************************************************************)
\* the calls for glkote.min.js and elkote.min.js in the other order
Catalog_ElkoteFirst ==
    << [target |-> "lib/elkote.min.js",
        srcls  |-> << "src/glkote/glkote.js",
                      "src/glkote/electrofs.js",
                      "src/glkote/glkapi.js" >>],
       [target |-> "lib/glkote.min.js",
        srcls  |-> << "src/glkote/glkote.js",
                      "src/glkote/dialog.js",
                      "src/glkote/glkapi.js" >>],
       [target |-> "lib/quixe.min.js",
        srcls  |-> << "src/quixe/quixe.js",
                      "src/quixe/gi_dispa.js",
                      "src/quixe/gi_load.js" >>] >>

Catalog ==
    << [target |-> "lib/glkote.min.js",
        srcls  |-> << "src/glkote/glkote.js",
                      "src/glkote/dialog.js",
                      "src/glkote/glkapi.js" >>],
       [target |-> "lib/elkote.min.js",
        srcls  |-> << "src/glkote/glkote.js",
                      "src/glkote/electrofs.js",
                      "src/glkote/glkapi.js" >>],
       [target |-> "lib/quixe.min.js",
        srcls  |-> << "src/quixe/quixe.js",
                      "src/quixe/gi_dispa.js",
                      "src/quixe/gi_load.js" >>] >>

NEntries == Len(Catalog)

Entries == 1..NEntries

\* every source path the catalog names
Paths == UNION {{Catalog[i].srcls[j] : j \in 1..Len(Catalog[i].srcls)} : i \in Entries}

(***************************************************************************)
(* The environment of a run.                                               *)
(***************************************************************************)
\* what a source file can hold: a file without a marker, and one with a
\* debug fragment
FileData == { <<97, LF>>, <<SEMI, SEMI, SEMI, 97, LF>> }

\* a source path names a readable file with some content, or nothing
FileStates ==
    {[exists |-> FALSE, data |-> <<>>]} \cup {[exists |-> TRUE, data |-> d] : d \in FileData}

\* exit statuses of the minifier: success, failure
ExitCodes == {0, 1}

(***************************************************************************)
(* State.                                                                  *)
(***************************************************************************)
VARIABLES
    fin,        \* FilterSpec: the byte string given to the filter
    fprev,      \* FilterSpec: the value before the last application
    fout,       \* FilterSpec: the value after the last application
    fcount,     \* FilterSpec: how many times the filter was applied
    fsys,       \* the source files on disk: path -> FileStates
    bufsize,    \* buffer size of proc.stdin: 0 (Python 2), BufSize (Python 3)
    rjsmin,     \* tools/rjsmin.py as the interpreter finds it: "present", "missing"
    pc,         \* the statement build.py executes next
    cur,        \* the catalog entry whose compress_source call is running
    srcidx,     \* position of the for loop in srcls
    dat,        \* the local variable dat
    printed,    \* the targets named on standard output so far
    target,     \* entry -> state of the target file on disk
    targetfl,   \* the file object targetfl of the running call
    stdin,      \* the file object proc.stdin of the running call
    ubuf,       \* bytes held in the user-space buffer of proc.stdin
    pending,    \* bytes a blocked write()/close() still has to put in the pipe
    pipe,       \* bytes in the kernel pipe, not yet read by the minifier
    piped,      \* entry -> all bytes that entered the pipe of its minifier
    pstate,     \* entry -> state of its minifier process
    pret,       \* entry -> exit status of its minifier process, <<>> if none
    ret,        \* entry -> the value proc.wait() returned, <<>> if none
    nlaunched,  \* entry -> number of minifier processes launched for it
    phase,      \* entry -> how far its build has come
    failure,    \* the exception that ended the run, "none" if none
    exitcode,   \* exit status of build.py, <<>> while it runs
    script,     \* ConvSpec: the converter that runs, game2js.py or zcode2js.py
    argv,       \* ConvSpec: sys.argv[1:] as the converter was invoked
    cexist,     \* ConvSpec: the paths that name a readable file
    cdata,      \* ConvSpec: the bytes such a file holds
    cpc,        \* ConvSpec: the statement the converter executes next
    args,       \* ConvSpec: the variable args
    format,     \* ConvSpec: the variable format
    opened,     \* ConvSpec: the paths given to open(), in order
    contents,   \* ConvSpec: the variable contents
    enc,        \* ConvSpec: the variable enc, a sequence of characters
    out,        \* ConvSpec: the lines printed on standard output
    cexit       \* ConvSpec: exit status of the converter, <<>> while it runs

fvars == <<fin, fprev, fout, fcount>>

cvars == <<script, argv, cexist, cdata, cpc, args, format, opened, contents,
           enc, out, cexit>>

envvars == <<fsys, bufsize, rjsmin>>

progvars == <<pc, cur, srcidx, dat, printed, targetfl, stdin, ubuf, pending,
              ret, phase, failure, exitcode>>

procvars == <<target, pipe, piped, pstate, pret, nlaunched>>

vars == <<fin, fprev, fout, fcount, fsys, bufsize, rjsmin, pc, cur, srcidx, dat,
          printed, target, targetfl, stdin, ubuf, pending, pipe, piped,
          pstate, pret, ret, nlaunched, phase, failure, exitcode,
          script, argv, cexist, cdata, cpc, args, format, opened, contents,
          enc, out, cexit>>

\* the converter before its first statement, invoked without arguments
ConvIdle ==
    /\ script = "game2js.py"
    /\ argv = <<>>
    /\ cexist = {}
    /\ cdata = <<>>
    /\ cpc = "start"
    /\ args = <<>>
    /\ format = "base64z"
    /\ opened = <<>>
    /\ contents = <<>>
    /\ enc = <<>>
    /\ out = <<>>
    /\ cexit = <<>>

\* the state of build.py and its surroundings before its first statement
BuildIdle ==
    /\ pc = "call"
    /\ cur = 1
    /\ srcidx = 1
    /\ dat = <<>>
    /\ printed = <<>>
    /\ target = [i \in Entries |-> "old"]
    /\ targetfl = "none"
    /\ stdin = "none"
    /\ ubuf = <<>>
    /\ pending = <<>>
    /\ pipe = <<>>
    /\ piped = [i \in Entries |-> <<>>]
    /\ pstate = [i \in Entries |-> "none"]
    /\ pret = [i \in Entries |-> <<>>]
    /\ ret = [i \in Entries |-> <<>>]
    /\ nlaunched = [i \in Entries |-> 0]
    /\ phase = [i \in Entries |-> "none"]
    /\ failure = "none"
    /\ exitcode = <<>>

(***************************************************************************)
(* FilterSpec: the filter applied to every bounded input, twice.           *)
(***************************************************************************)
FilterInit ==
    /\ fin \in {Flatten(ps) : ps \in SeqsUpTo(Pieces, MaxLen)}
    /\ fprev = fin
    /\ fout = fin
    /\ fcount = 0
    /\ fsys = [p \in Paths |-> [exists |-> FALSE, data |-> <<>>]]
    /\ bufsize = 0
    /\ rjsmin = "present"
    /\ BuildIdle
    /\ ConvIdle

\* dat = regex_debug.sub(b'', dat)
ApplyFilter ==
    /\ fcount < 2
    /\ fprev' = fout
    /\ fout' = regex_debug_sub(fout)
    /\ fcount' = fcount + 1
    /\ UNCHANGED <<fin, cvars, envvars, progvars, procvars>>

FilterNext == ApplyFilter

FilterSpec == FilterInit /\ [][FilterNext]_vars

(***************************************************************************)
(* Spec: one run of build.py.                                              *)
(***************************************************************************)
Init ==
    /\ fin = <<>>
    /\ fprev = <<>>
    /\ fout = <<>>
    /\ fcount = 0
    /\ fsys \in [Paths -> FileStates]
    /\ bufsize \in {0, BufSize}
    /\ rjsmin \in {"present", "missing"}
    /\ BuildIdle
    /\ ConvIdle

srcls == Catalog[cur].srcls

\* an exception nobody catches: the traceback is printed and the
\* interpreter exits with status 1
Raise(kind) ==
    /\ failure' = kind
    /\ exitcode' = <<1>>
    /\ pc' = "failed"

\* proc.stdin.close() indented into the loop body: a wrong layout
AfterWrite_CloseInLoop == "close"

\* the for loop of compress_source: the statement after the write of source
\* number srcidx
AfterWrite ==
    IF srcidx + 1 > Len(srcls) THEN "close" ELSE "read"

\* "if (ret)" that never holds: a build that ignores the exit status
RetFails_Ignored(r) == FALSE

\* if (ret): raise Exception('Process result code %d' % (ret,))
RetFails(r) == r # 0

\* dat used unfiltered: a build that forgets the substitution
FilteredData_Raw(d) == d

\* dat = regex_debug.sub(b'', dat)
FilteredData(d) == regex_debug_sub(d)

\* compress_source(target, srcls) is called; print('Writing', target)
Call ==
    /\ pc = "call"
    /\ printed' = Append(printed, Catalog[cur].target)
    /\ phase' = [phase EXCEPT ![cur] = "printed"]
    /\ pc' = "open_target"
    /\ UNCHANGED <<fvars, cvars, envvars, procvars, cur, srcidx, dat, targetfl, stdin,
                   ubuf, pending, ret, failure, exitcode>>

\* open(target, 'ab'): the target is opened without truncation
OpenTarget_Append ==
    /\ pc = "open_target"
    /\ targetfl' = "open"
    /\ phase' = [phase EXCEPT ![cur] = "opened"]
    /\ pc' = "popen"
    /\ UNCHANGED <<fvars, cvars, envvars, procvars, cur, srcidx, dat, printed, stdin,
                   ubuf, pending, ret, failure, exitcode>>

\* with open(target, 'wb') as targetfl: the file is created or truncated,
\* or open() raises
OpenTarget ==
    /\ pc = "open_target"
    /\ \/ /\ target' = [target EXCEPT ![cur] = "empty"]
          /\ targetfl' = "open"
          /\ phase' = [phase EXCEPT ![cur] = "opened"]
          /\ pc' = "popen"
          /\ UNCHANGED <<failure, exitcode>>
       \/ /\ Raise("OpenError")
          /\ UNCHANGED <<target, targetfl, phase>>
    /\ UNCHANGED <<fvars, cvars, envvars, cur, srcidx, dat, printed, stdin, ubuf,
                   pending, pipe, piped, pstate, pret, ret, nlaunched>>

\* proc = subprocess.Popen([sys.executable, 'tools/rjsmin.py'],
\*                         stdin=subprocess.PIPE, stdout=targetfl)
\* or Popen raises, and the with statement closes targetfl
Popen ==
    /\ pc = "popen"
    /\ \/ /\ pstate' = [pstate EXCEPT ![cur] = "running"]
          /\ nlaunched' = [nlaunched EXCEPT ![cur] = @ + 1]
          /\ stdin' = "open"
          /\ ubuf' = <<>>
          /\ pipe' = <<>>
          /\ srcidx' = 1
          /\ phase' = [phase EXCEPT ![cur] = IF Len(srcls) = 0 THEN "written" ELSE "launched"]
          /\ pc' = IF Len(srcls) = 0 THEN "close" ELSE "read"
          /\ UNCHANGED <<targetfl, failure, exitcode>>
       \/ /\ Raise("LaunchError")
          /\ targetfl' = "closed"
          /\ UNCHANGED <<pstate, nlaunched, stdin, ubuf, pipe, srcidx, phase>>
    /\ UNCHANGED <<fvars, cvars, envvars, cur, dat, printed, target, pending, piped,
                   pret, ret>>

\* a missing source read as an empty file: a build that swallows the error
ReadSrc_SkipMissing ==
    /\ pc = "read"
    /\ dat' = fsys[srcls[srcidx]].data
    /\ pc' = "filter"
    /\ UNCHANGED <<fvars, cvars, envvars, procvars, cur, srcidx, printed, targetfl,
                   stdin, ubuf, pending, ret, phase, failure, exitcode>>

\* with open(src, 'rb') as fl: dat = fl.read()
\* or open() raises, and the outer with statement closes targetfl
ReadSrc ==
    /\ pc = "read"
    /\ IF fsys[srcls[srcidx]].exists
       THEN /\ dat' = fsys[srcls[srcidx]].data
            /\ pc' = "filter"
            /\ UNCHANGED <<targetfl, failure, exitcode>>
       ELSE /\ Raise("ReadError")
            /\ targetfl' = "closed"
            /\ UNCHANGED dat
    /\ UNCHANGED <<fvars, cvars, envvars, procvars, cur, srcidx, printed, stdin, ubuf,
                   pending, ret, phase>>

\* dat = regex_debug.sub(b'', dat)
FilterDat ==
    /\ pc = "filter"
    /\ dat' = FilteredData(dat)
    /\ pc' = "write"
    /\ UNCHANGED <<fvars, cvars, envvars, procvars, cur, srcidx, printed, targetfl,
                   stdin, ubuf, pending, ret, phase, failure, exitcode>>

\* proc.stdin.write(dat): data that fits in the buffer of proc.stdin stays
\* there and write() returns; otherwise the buffer and the data go to the
\* pipe, and write() returns when the pipe has taken all of it
Write ==
    /\ pc = "write"
    /\ IF Len(ubuf) + Len(dat) <= bufsize
       THEN /\ ubuf' = ubuf \o dat
            /\ srcidx' = srcidx + 1
            /\ pc' = AfterWrite
            /\ phase' = [phase EXCEPT ![cur] = IF AfterWrite = "close" THEN "written" ELSE @]
            /\ UNCHANGED pending
       ELSE /\ pending' = ubuf \o dat
            /\ ubuf' = <<>>
            /\ pc' = "writing"
            /\ UNCHANGED <<srcidx, phase>>
    /\ UNCHANGED <<fvars, cvars, envvars, procvars, cur, dat, printed, targetfl, stdin,
                   ret, failure, exitcode>>

\* the write(2) inside proc.stdin.write(dat): it fails with EPIPE when the
\* minifier has gone, takes what the pipe has room for, and blocks while
\* the pipe is full
PipeWrite ==
    /\ pc = "writing"
    /\ IF pstate[cur] = "exited"
       THEN /\ Raise("WriteError")
            /\ targetfl' = "closed"
            /\ UNCHANGED <<pending, pipe, piped, srcidx, phase>>
       ELSE /\ Len(pipe) < PipeCap
            /\ LET k == IF Len(pending) <= PipeCap - Len(pipe)
                        THEN Len(pending) ELSE PipeCap - Len(pipe)
               IN  /\ pipe' = pipe \o SubSeq(pending, 1, k)
                   /\ piped' = [piped EXCEPT ![cur] = @ \o SubSeq(pending, 1, k)]
                   /\ pending' = SubSeq(pending, k + 1, Len(pending))
                   /\ IF k = Len(pending)
                      THEN /\ srcidx' = srcidx + 1
                           /\ pc' = AfterWrite
                           /\ phase' = [phase EXCEPT ![cur] =
                                           IF AfterWrite = "close" THEN "written" ELSE @]
                      ELSE UNCHANGED <<srcidx, pc, phase>>
            /\ UNCHANGED <<targetfl, failure, exitcode>>
    /\ UNCHANGED <<fvars, cvars, envvars, cur, dat, printed, target, stdin, ubuf,
                   pstate, pret, ret, nlaunched>>

\* a close() that is left out: the minifier never sees the end of its input
CloseStdin_Forgotten ==
    /\ pc = "close"
    /\ ubuf = <<>>
    /\ pc' = "wait"
    /\ phase' = [phase EXCEPT ![cur] = "closed"]
    /\ UNCHANGED <<fvars, cvars, envvars, procvars, cur, srcidx, dat, printed, targetfl,
                   stdin, ubuf, pending, ret, failure, exitcode>>

\* proc.stdin.close() with an empty buffer: the write end of the pipe is
\* closed
CloseStdin ==
    /\ pc = "close"
    /\ ubuf = <<>>
    /\ stdin' = "closed"
    /\ pc' = "wait"
    /\ phase' = [phase EXCEPT ![cur] = "closed"]
    /\ UNCHANGED <<fvars, cvars, envvars, procvars, cur, srcidx, dat, printed, targetfl,
                   ubuf, pending, ret, failure, exitcode>>

\* proc.stdin.close() with bytes in the buffer: they are flushed first
CloseFlush ==
    /\ pc = "close"
    /\ ubuf # <<>>
    /\ pending' = ubuf
    /\ ubuf' = <<>>
    /\ pc' = "closing"
    /\ UNCHANGED <<fvars, cvars, envvars, procvars, cur, srcidx, dat, printed, targetfl,
                   stdin, ret, phase, failure, exitcode>>

\* the write(2) inside proc.stdin.close(); the descriptor is closed after
\* the flush, also when the flush fails with EPIPE
PipeFlush ==
    /\ pc = "closing"
    /\ IF pstate[cur] = "exited"
       THEN /\ Raise("WriteError")
            /\ stdin' = "closed"
            /\ targetfl' = "closed"
            /\ UNCHANGED <<pending, pipe, piped, phase>>
       ELSE /\ Len(pipe) < PipeCap
            /\ LET k == IF Len(pending) <= PipeCap - Len(pipe)
                        THEN Len(pending) ELSE PipeCap - Len(pipe)
               IN  /\ pipe' = pipe \o SubSeq(pending, 1, k)
                   /\ piped' = [piped EXCEPT ![cur] = @ \o SubSeq(pending, 1, k)]
                   /\ pending' = SubSeq(pending, k + 1, Len(pending))
                   /\ IF k = Len(pending)
                      THEN /\ stdin' = "closed"
                           /\ pc' = "wait"
                           /\ phase' = [phase EXCEPT ![cur] = "closed"]
                      ELSE UNCHANGED <<stdin, pc, phase>>
            /\ UNCHANGED <<targetfl, failure, exitcode>>
    /\ UNCHANGED <<fvars, cvars, envvars, cur, srcidx, dat, printed, target, ubuf,
                   pstate, pret, ret, nlaunched>>

\* a wait() that does not block (poll() in its place): a minifier that still
\* runs gives None, which "if (ret)" takes for success
Wait_NoBlock ==
    /\ pc = "wait"
    /\ ret' = [ret EXCEPT ![cur] = IF pstate[cur] = "exited" THEN pret[cur] ELSE <<0>>]
    /\ phase' = [phase EXCEPT ![cur] = "waited"]
    /\ pc' = "check"
    /\ UNCHANGED <<fvars, cvars, envvars, procvars, cur, srcidx, dat, printed, targetfl,
                   stdin, ubuf, pending, failure, exitcode>>

\* ret = proc.wait(): returns the exit status once the minifier has exited
Wait ==
    /\ pc = "wait"
    /\ pstate[cur] = "exited"
    /\ ret' = [ret EXCEPT ![cur] = pret[cur]]
    /\ phase' = [phase EXCEPT ![cur] = "waited"]
    /\ pc' = "check"
    /\ UNCHANGED <<fvars, cvars, envvars, procvars, cur, srcidx, dat, printed, targetfl,
                   stdin, ubuf, pending, failure, exitcode>>

\* if (ret): raise Exception(...); the with statement closes targetfl on
\* both ways out; after a good return the next module-level call follows,
\* and after the last one the script ends with status 0
CheckRet ==
    /\ pc = "check"
    /\ targetfl' = "closed"
    /\ IF RetFails(ret[cur][1])
       THEN /\ Raise("ProcessError")
            /\ UNCHANGED <<cur, phase>>
       ELSE /\ phase' = [phase EXCEPT ![cur] = "built"]
            /\ failure' = failure
            /\ IF cur < NEntries
               THEN /\ cur' = cur + 1
                    /\ pc' = "call"
                    /\ exitcode' = exitcode
               ELSE /\ cur' = cur
                    /\ pc' = "done"
                    /\ exitcode' = <<0>>
    /\ UNCHANGED <<fvars, cvars, envvars, procvars, srcidx, dat, printed, stdin, ubuf,
                   pending, ret>>

(***************************************************************************)
(* The minifier process of the running call.                               *)
(***************************************************************************)
\* the write end of the pipe is closed: by proc.stdin.close(), or by the
\* operating system when build.py has exited
WriteEndClosed == stdin = "closed" \/ exitcode # <<>>

\* the minifier reads what is in the pipe
MinRead ==
    /\ rjsmin = "present"
    /\ pstate[cur] = "running"
    /\ pipe # <<>>
    /\ pipe' = <<>>
    /\ UNCHANGED <<fvars, cvars, envvars, progvars, target, piped, pstate, pret, nlaunched>>

\* the minifier sees the end of its input, writes its output to the target
\* file and exits
MinFinish ==
    /\ rjsmin = "present"
    /\ pstate[cur] = "running"
    /\ pipe = <<>>
    /\ WriteEndClosed
    /\ \E rc \in ExitCodes :
          pret' = [pret EXCEPT ![cur] = <<rc>>]
    /\ pstate' = [pstate EXCEPT ![cur] = "exited"]
    /\ target' = [target EXCEPT ![cur] = "output"]
    /\ UNCHANGED <<fvars, cvars, envvars, progvars, pipe, piped, nlaunched>>

\* the minifier exits on its own before the end of its input (it
\* crashed); what the pipe held is lost
MinDie ==
    /\ rjsmin = "present"
    /\ pstate[cur] = "running"
    /\ ~(pipe = <<>> /\ WriteEndClosed)
    /\ \E rc \in ExitCodes \ {0} :
          pret' = [pret EXCEPT ![cur] = <<rc>>]
    /\ pstate' = [pstate EXCEPT ![cur] = "exited"]
    /\ pipe' = <<>>
    /\ UNCHANGED <<fvars, cvars, envvars, progvars, target, piped, nlaunched>>

\* the interpreter that Popen started cannot open tools/rjsmin.py: it
\* reads nothing, writes nothing to the target file and exits with a
\* failure status; what the pipe held is lost
MinNoScript ==
    /\ rjsmin = "missing"
    /\ pstate[cur] = "running"
    /\ \E rc \in ExitCodes \ {0} :
          pret' = [pret EXCEPT ![cur] = <<rc>>]
    /\ pstate' = [pstate EXCEPT ![cur] = "exited"]
    /\ pipe' = <<>>
    /\ UNCHANGED <<fvars, cvars, envvars, progvars, target, piped, nlaunched>>

ProgNext ==
    \/ Call
    \/ OpenTarget
    \/ Popen
    \/ ReadSrc
    \/ FilterDat
    \/ Write
    \/ PipeWrite
    \/ CloseStdin
    \/ CloseFlush
    \/ PipeFlush
    \/ Wait
    \/ CheckRet

Next ==
    \/ ProgNext
    \/ MinRead
    \/ MinFinish
    \/ MinDie
    \/ MinNoScript

Spec == Init /\ [][Next]_vars

\* the operating system schedules both processes: build.py takes its next
\* step when it is not blocked, the minifier reads when there is input and
\* finishes when its input has ended
FairSpec ==
    /\ Spec
    /\ WF_vars(ProgNext)
    /\ WF_vars(MinRead)
    /\ WF_vars(MinFinish)
    /\ WF_vars(MinNoScript)

(***************************************************************************)
(* ConvSpec: one run of a story-file converter, tools/game2js.py or         *)
(* tools/zcode2js.py, on every bounded command line and story file.        *)
(***************************************************************************)
\* the mode flag
GILOAD == "--giload"

\* what a command line is made of: the mode flag and a path
ArgWords == {GILOAD, "story.ulx"}

\* the byte values a story file is made of
StoryBytes == {0, 1, 2, 255}

\* the base64 alphabet: the character of the 6-bit value k is B64Chars[k + 1]
B64Chars ==
    << "A", "B", "C", "D", "E", "F", "G", "H", "I", "J", "K", "L", "M",
       "N", "O", "P", "Q", "R", "S", "T", "U", "V", "W", "X", "Y", "Z",
       "a", "b", "c", "d", "e", "f", "g", "h", "i", "j", "k", "l", "m",
       "n", "o", "p", "q", "r", "s", "t", "u", "v", "w", "x", "y", "z",
       "0", "1", "2", "3", "4", "5", "6", "7", "8", "9", "+", "/" >>

B64Char(k) == B64Chars[k + 1]

\* the last group left without its '=' signs: a wrong encoder
B64Tail_NoPadding(b) ==
    IF Len(b) = 1
    THEN << B64Char(b[1] \div 4), B64Char((b[1] % 4) * 16) >>
    ELSE << B64Char(b[1] \div 4),
            B64Char((b[1] % 4) * 16 + b[2] \div 16),
            B64Char((b[2] % 16) * 4) >>

\* base64 of a last group of one or two bytes: the bits are filled up with
\* zeros and the group with '='
B64Tail(b) ==
    IF Len(b) = 1
    THEN << B64Char(b[1] \div 4), B64Char((b[1] % 4) * 16), "=", "=" >>
    ELSE << B64Char(b[1] \div 4),
            B64Char((b[1] % 4) * 16 + b[2] \div 16),
            B64Char((b[2] % 16) * 4),
            "=" >>

\* base64.b64encode(contents): every three bytes give four characters
RECURSIVE b64encode(_)
b64encode(b) ==
    IF Len(b) = 0 THEN <<>>
    ELSE IF Len(b) < 3 THEN B64Tail(b)
    ELSE << B64Char(b[1] \div 4),
            B64Char((b[1] % 4) * 16 + b[2] \div 16),
            B64Char((b[2] % 16) * 4 + b[3] \div 64),
            B64Char(b[3] % 64) >> \o b64encode(SubSeq(b, 4, Len(b)))

\* list.remove(x): the list without the first occurrence of x
RemoveFirst(l, x) ==
    LET k == CHOOSE j \in 1..Len(l) : l[j] = x /\ \A m \in 1..(j - 1) : l[m] # x
    IN  SubSeq(l, 1, k - 1) \o SubSeq(l, k + 1, Len(l))

\* the first line of the loader snippet: jQuery in game2js.py, Prototype in
\* zcode2js.py
ReadyLine ==
    IF script = "game2js.py"
    THEN << "$(document).ready(function() {" >>
    ELSE << "Event.observe(window, 'load', function() {" >>

ConvInit ==
    /\ fin = <<>>
    /\ fprev = <<>>
    /\ fout = <<>>
    /\ fcount = 0
    /\ fsys = [p \in Paths |-> [exists |-> FALSE, data |-> <<>>]]
    /\ bufsize = 0
    /\ rjsmin = "present"
    /\ BuildIdle
    /\ script \in {"game2js.py", "zcode2js.py"}
    /\ argv \in SeqsUpTo(ArgWords, MaxArgs)
    /\ cexist \in SUBSET ArgWords
    /\ cdata \in SeqsUpTo(StoryBytes, MaxBytes)
    /\ cpc = "start"
    /\ args = <<>>
    /\ format = "base64z"
    /\ opened = <<>>
    /\ contents = <<>>
    /\ enc = <<>>
    /\ out = <<>>
    /\ cexit = <<>>

\* format = 'base64z'; args = sys.argv[1:]
\* if ('--giload' in args): args.remove('--giload'); format = 'giload'
ConvParse ==
    /\ cpc = "start"
    /\ IF \E k \in 1..Len(argv) : argv[k] = GILOAD
       THEN /\ args' = RemoveFirst(argv, GILOAD)
            /\ format' = "giload"
       ELSE /\ args' = argv
            /\ format' = "base64z"
    /\ cpc' = "check"
    /\ UNCHANGED <<fvars, envvars, progvars, procvars, script, argv, cexist,
                   cdata, opened, contents, enc, out, cexit>>

\* "len(args) != 1" taken for "len(args) == 0": a wrong test
WrongCount_OnlyZero(a) == Len(a) = 0

\* if len(args) != 1:
WrongCount(a) == Len(a) # 1

\* if len(args) != 1: print(__doc__); sys.exit(-1)
\* the exit status of sys.exit(-1) is 255
ConvCheck ==
    /\ cpc = "check"
    /\ IF WrongCount(args)
       THEN /\ out' = Append(out, << "__doc__" >>)
            /\ cexit' = <<255>>
            /\ cpc' = "exit"
       ELSE /\ cpc' = "open"
            /\ UNCHANGED <<out, cexit>>
    /\ UNCHANGED <<fvars, envvars, progvars, procvars, script, argv, cexist,
                   cdata, args, format, opened, contents, enc>>

\* fl = open(args[0], "rb"); contents = fl.read(); fl.close()
\* open() raises when the path names no readable file: exit status 1
ConvRead ==
    /\ cpc = "open"
    /\ opened' = Append(opened, args[1])
    /\ IF args[1] \in cexist
       THEN /\ contents' = cdata
            /\ cpc' = "encode"
            /\ UNCHANGED cexit
       ELSE /\ cexit' = <<1>>
            /\ cpc' = "exit"
            /\ UNCHANGED contents
    /\ UNCHANGED <<fvars, envvars, progvars, procvars, script, argv, cexist,
                   cdata, args, format, enc, out>>

\* enc = base64.b64encode(contents).decode()
ConvEncode ==
    /\ cpc = "encode"
    /\ enc' = b64encode(contents)
    /\ cpc' = "print"
    /\ UNCHANGED <<fvars, envvars, progvars, procvars, script, argv, cexist,
                   cdata, args, format, opened, contents, out, cexit>>

\* if (format == 'base64z'): print("processBase64Zcode('%s');" % (enc,))
\* elif (format == 'giload'): the three lines of the loader snippet;
\* the script ends with status 0
ConvPrint ==
    /\ cpc = "print"
    /\ out' = out \o
          (IF format = "base64z"
           THEN << << "processBase64Zcode('" >> \o enc \o << "');" >> >>
           ELSE << ReadyLine,
                   << "  GiLoad.load_run(null, '" >> \o enc \o << "', 'base64');" >>,
                   << "});" >> >>)
    /\ cexit' = <<0>>
    /\ cpc' = "exit"
    /\ UNCHANGED <<fvars, envvars, progvars, procvars, script, argv, cexist,
                   cdata, args, format, opened, contents, enc>>

ConvNext ==
    \/ ConvParse
    \/ ConvCheck
    \/ ConvRead
    \/ ConvEncode
    \/ ConvPrint

ConvSpec == ConvInit /\ [][ConvNext]_vars

(***************************************************************************)
(* Properties of the debug-line filter, checked under FilterSpec.          *)
(***************************************************************************)
\* the three bytes b';;;' occur somewhere in s
ContainsMarker(s) ==
    \E p \in 1..(Len(s) - 2) : SubSeq(s, p, p + 2) = <<SEMI, SEMI, SEMI>>

\* position p of s lies at or after the first b';;;' of its line
InFragment(s, p) ==
    \E q \in 1..p :
        /\ q + 2 <= Len(s)
        /\ SubSeq(s, q, q + 2) = <<SEMI, SEMI, SEMI>>
        /\ \A k \in q..p : s[k] # LF

\* s without, on each line, everything from the first b';;;' to the end of
\* the line; the line feeds stay
RECURSIVE WithoutFragmentsFrom(_, _)
WithoutFragmentsFrom(s, p) ==
    IF p > Len(s) THEN <<>>
    ELSE (IF InFragment(s, p) THEN <<>> ELSE <<s[p]>>) \o WithoutFragmentsFrom(s, p + 1)

\* the positions of the line feeds of s
LineFeeds(s) == {p \in 1..Len(s) : s[p] = LF}

\* the position of the n-th line feed of s
NthLineFeed(s, n) ==
    CHOOSE p \in LineFeeds(s) : Cardinality({q \in LineFeeds(s) : q <= p}) = n

\* the line feed at position p of s is the second byte of a b'\r\n' pair
AfterCarriageReturn(s, p) == p > 1 /\ s[p - 1] = 13

\* C4: the filter returns its input without, on each line, everything from
\* the first marker b';;;' to the end of that line (the marker included, also
\* when nothing follows it on its line), all other bytes unchanged; so the
\* output never contains b';;;'.
C4_FragmentsRemovedWithMarker ==
    fcount = 1 =>
        /\ fout = WithoutFragmentsFrom(fin, 1)
        /\ ~ContainsMarker(fout)

\* C5: the filter never removes, inserts or moves a line terminator: the
\* output has as many lines as the input, and a line that ended in b'\r\n'
\* in the input still ends in b'\r\n' in the output.
C5_LineTerminatorsKept ==
    fcount = 1 =>
        /\ Cardinality(LineFeeds(fout)) = Cardinality(LineFeeds(fin))
        /\ \A n \in 1..Cardinality(LineFeeds(fin)) :
              AfterCarriageReturn(fin, NthLineFeed(fin, n))
                  => AfterCarriageReturn(fout, NthLineFeed(fout, n))

\* C6: the filter is idempotent: filtering the filtered output again gives
\* the same bytes.
C6_FilterIdempotent ==
    fcount = 2 => fout = fprev

\* the filter was applied twice to an input from which the first application
\* removed a fragment and in which it left a marker behind
C6_Witness ==
    /\ fcount = 2
    /\ fprev # fin
    /\ ContainsMarker(fprev)

\* C7: on a byte string without any occurrence of b';;;' the filter is the
\* identity.
C7_IdentityWithoutMarker ==
    (fcount = 1 /\ ~ContainsMarker(fin)) => fout = fin

\* the filter was applied to an input of several lines that has two
\* semicolons in a row, but no marker
C7_Witness ==
    /\ fcount = 1
    /\ ~ContainsMarker(fin)
    /\ \E p \in 1..(Len(fin) - 2) : fin[p] = SEMI /\ fin[p + 1] = SEMI /\ fin[p + 2] # LF
    /\ LineFeeds(fin) # {}

(***************************************************************************)
(* Properties of a run of build.py, checked under Spec and FairSpec.       *)
(***************************************************************************)
\* filter(s1) ++ ... ++ filter(sn) for the first n sources of entry i
RECURSIVE ConcatFiltered(_, _)
ConcatFiltered(i, n) ==
    IF n = 0 THEN <<>>
    ELSE ConcatFiltered(i, n - 1) \o regex_debug_sub(fsys[Catalog[i].srcls[n]].data)

\* the bytes build.py has written to the input of the minifier of entry i:
\* those the pipe took, and for the running call those still on their way
Stream(i) ==
    piped[i] \o (IF i = cur THEN pending \o ubuf ELSE <<>>)

\* nothing of entry j has been started
NotStarted(j) ==
    /\ phase[j] = "none"
    /\ \A k \in 1..Len(printed) : printed[k] # Catalog[j].target
    /\ target[j] = "old"
    /\ nlaunched[j] = 0
    /\ pstate[j] = "none"

\* the build of entry i has ended in a failure: an exception left its call,
\* or its minifier was seen to exit with a non-zero status and the call is over
EntryFailed(i) ==
    \/ failure # "none" /\ cur = i
    \/ ret[i] # <<>> /\ ret[i] # <<0>> /\ phase[i] # "waited"

\* the call of entry i is over
BuildEnded(i) == i < cur \/ exitcode # <<>>

\* entry i was built: all sources read and written, input closed, status 0
EntryBuilt(i) ==
    /\ phase[i] = "built"
    /\ \A j \in 1..Len(Catalog[i].srcls) : fsys[Catalog[i].srcls[j]].exists
    /\ piped[i] = ConcatFiltered(i, Len(Catalog[i].srcls))
    /\ pstate[i] = "exited"
    /\ pret[i] = <<0>>
    /\ ret[i] = <<0>>

\* C1: once the build of an entry has failed (in particular on a non-zero
\* exit of its minifier), no later entry is started (no progress message, no
\* target opened, no minifier launched) and the run has ended with a
\* non-zero exit status.
C1_FailureStopsTheRun ==
    \A i \in Entries :
        EntryFailed(i) =>
            /\ exitcode # <<>>
            /\ exitcode # <<0>>
            /\ \A j \in Entries : j > i => NotStarted(j)

\* the minifier of the first entry exited with a non-zero status and the run
\* ended there
C1_Witness ==
    /\ failure = "ProcessError"
    /\ cur = 1
    /\ ret[1] = <<1>>
    /\ exitcode = <<1>>

\* C2: the run exits with status 0 exactly when every entry was built; every
\* failure gives a non-zero status, and nothing is retried: no entry is
\* announced or launched a second time.
C2_ExitZeroIffAllBuilt ==
    /\ exitcode # <<>> => (exitcode = <<0>> <=> \A i \in Entries : EntryBuilt(i))
    /\ failure # "none" => exitcode = <<1>>
    /\ \A i \in Entries : nlaunched[i] <= 1
    /\ \A k, l \in 1..Len(printed) : printed[k] = printed[l] => k = l

\* the run has ended with status 0
C2_Witness ==
    /\ pc = "done"
    /\ exitcode = <<0>>

\* C3: for an entry whose build has reached the close of the input channel,
\* the bytes written to its minifier are filter(s1) ++ ... ++ filter(sn) in
\* list order; once the close is done, the pipe has taken all of them.
C3_StreamIsFilteredConcatenation ==
    \A i \in Entries :
        /\ phase[i] \in {"written", "closed", "waited", "built"}
              => Stream(i) = ConcatFiltered(i, Len(Catalog[i].srcls))
        /\ phase[i] \in {"closed", "waited", "built"}
              => piped[i] = ConcatFiltered(i, Len(Catalog[i].srcls))

\* the input of the second entry was closed after sources of different
\* content, one of them with a debug fragment
C3_Witness ==
    /\ cur = 2
    /\ phase[2] = "closed"
    /\ fsys[Catalog[2].srcls[1]].data = <<SEMI, SEMI, SEMI, 97, LF>>
    /\ fsys[Catalog[2].srcls[2]].data = <<97, LF>>
    /\ piped[2] = <<LF, 97, LF>> \o regex_debug_sub(fsys[Catalog[2].srcls[3]].data)

\* C8 as stated: when a source is missing, the earlier entries were built and
\* the run fails with a read error before anything was done for the failing
\* entry: its target is untouched and no byte was sent to a minifier for it.
C8_NothingDoneBeforeReadError ==
    failure = "ReadError" =>
        /\ \A j \in 1..(cur - 1) : EntryBuilt(j) /\ target[j] = "output"
        /\ target[cur] = "old"
        /\ nlaunched[cur] = 0
        /\ Stream(cur) = <<>>

\* C8 as amended: the step that finds a source missing ends the run with a
\* read error; at that moment the earlier entries are built, the target of
\* the failing entry has already been created or truncated, its minifier has
\* been launched, and the filtered sources before the missing one have been
\* written to it.
C8_ReadErrorAfterTruncation ==
    [][ (pc = "read" /\ ~fsys[srcls[srcidx]].exists /\ pc' # "read") =>
          /\ failure' = "ReadError"
          /\ exitcode' = <<1>>
          /\ cur' = cur
          /\ \A j \in 1..(cur - 1) : EntryBuilt(j)' /\ target'[j] = "output"
          /\ target'[cur] # "old"
          /\ nlaunched'[cur] = 1
          /\ Stream(cur)' = ConcatFiltered(cur, srcidx - 1)
      ]_vars

\* the second entry failed on its missing second source, after its first
\* source had been written
C8_Witness ==
    /\ failure = "ReadError"
    /\ cur = 2
    /\ srcidx = 2
    /\ ~fsys[Catalog[2].srcls[2]].exists
    /\ Stream(2) # <<>>
    /\ target[1] = "output"

\* C9 as stated: exactly one minifier is launched for every entry whose build
\* was started, and two minifiers never run at the same time.
C9_ExactlyOnePerStartedEntry ==
    /\ \A i \in Entries : (phase[i] # "none" /\ BuildEnded(i)) => nlaunched[i] = 1
    /\ Cardinality({i \in Entries : pstate[i] = "running"}) <= 1

\* C9 as amended: one minifier is launched for every entry whose build got
\* past the launch and none for an entry whose target open or launch failed,
\* never more than one; the minifier of an entry has exited before the next
\* entry is started, so two never run at the same time.
C9_OnePerLaunchedEntry ==
    /\ \A i \in Entries :
          /\ nlaunched[i] = (IF phase[i] \in {"none", "printed", "opened"} THEN 0 ELSE 1)
          /\ (phase[i] \in {"printed", "opened"} /\ BuildEnded(i))
                => (i = cur /\ failure \in {"OpenError", "LaunchError"})
          /\ (i < cur /\ phase[i + 1] # "none") => pstate[i] = "exited"
    /\ Cardinality({i \in Entries : pstate[i] = "running"}) <= 1

\* the minifier of the third entry runs after those of the first two exited
C9_Witness ==
    /\ cur = 3
    /\ pstate = <<"exited", "exited", "running">>
    /\ nlaunched = <<1, 1, 1>>

\* a write to the pipe is blocked: the pipe is full and bytes are left
Blocked ==
    /\ pc \in {"writing", "closing"}
    /\ pstate[cur] = "running"
    /\ Len(pipe) = PipeCap
    /\ pending # <<>>

\* C10: the writer and the minifier do not deadlock: every blocked write to
\* the pipe gets on, the input channel of a launched minifier is closed or
\* its build fails, every wait returns, and the build of every started entry
\* comes to its end.
C10_NoDeadlock ==
    /\ Blocked ~> ~Blocked
    /\ \A i \in Entries :
          (phase[i] = "launched") ~> (phase[i] = "closed" \/ failure # "none")
    /\ (pc = "wait") ~> (pc = "check")
    /\ \A i \in Entries :
          (phase[i] # "none") ~> (phase[i] = "built" \/ failure # "none")
    /\ <>(exitcode # <<>>)

\* a write is blocked on a full pipe with more bytes left than the pipe holds
\* in all
C10_Witness ==
    /\ Blocked
    /\ Len(piped[cur]) + Len(pending) > PipeCap

\* C11: when the build of an entry has ended, with or without a failure, it
\* has released what it owned: the target file object is closed, the input
\* channel of the minifier is closed, and the minifier has been waited for.
C11_ResourcesReleasedAtEnd ==
    /\ \A i \in Entries :
          (BuildEnded(i) /\ nlaunched[i] > 0) => ret[i] # <<>>
    /\ (exitcode # <<>> /\ phase[cur] # "none") =>
          /\ targetfl \in {"none", "closed"}
          /\ stdin \in {"none", "closed"}
    /\ pc = "call" =>
          /\ targetfl \in {"none", "closed"}
          /\ stdin \in {"none", "closed"}

(***************************************************************************)
(* Properties of the story-file converters, checked under ConvSpec.        *)
(***************************************************************************)
\* the number of input file paths: the arguments other than the mode flag
NonFlagCount(a) == Cardinality({k \in 1..Len(a) : a[k] # GILOAD})

\* something other than the usage text was printed
StoryPrinted == \E k \in 1..Len(out) : out[k] # << "__doc__" >>

\* the 6-bit value of a character of the base64 alphabet
B64Value(c) == CHOOSE k \in 0..63 : B64Chars[k + 1] = c

\* the bytes a base64 text stands for, group of four characters by group
RECURSIVE B64Decode(_)
B64Decode(e) ==
    IF Len(e) < 4 THEN <<>>
    ELSE LET v1 == B64Value(e[1])
             v2 == B64Value(e[2])
         IN  IF e[3] = "=" THEN << v1 * 4 + v2 \div 16 >>
             ELSE IF e[4] = "="
                  THEN << v1 * 4 + v2 \div 16,
                          (v2 % 16) * 16 + B64Value(e[3]) \div 4 >>
                  ELSE << v1 * 4 + v2 \div 16,
                          (v2 % 16) * 16 + B64Value(e[3]) \div 4,
                          (B64Value(e[3]) % 4) * 64 + B64Value(e[4]) >>
                       \o B64Decode(SubSeq(e, 5, Len(e)))

\* e is the standard base64 text of the bytes d: four characters for every
\* three bytes, the last group filled up with '=', and the bytes come back
IsBase64Of(e, d) ==
    /\ Len(e) = 4 * ((Len(d) + 2) \div 3)
    /\ \A k \in 1..Len(e) :
          \/ \E v \in 0..63 : B64Chars[v + 1] = e[k]
          \/ e[k] = "=" /\ k > Len(e) - (3 * ((Len(d) + 2) \div 3) - Len(d))
    /\ B64Decode(e) = d

\* C12: when the number of input file paths (the arguments other than
\* '--giload') is zero or more than one, the converter opens no file, prints
\* no story data and exits with a non-zero status.
C12_WrongPathCountRejected ==
    NonFlagCount(argv) # 1 =>
        /\ opened = <<>>
        /\ ~StoryPrinted
        /\ cpc = "exit" => (cexit # <<>> /\ cexit # <<0>>)

\* C13: with exactly one input path and no mode flag the converter prints
\* the one line processBase64Zcode('E'); where E is the standard base64 text
\* of the whole file (AAEC for the bytes 0, 1, 2); with the mode flag it
\* prints the three lines of the loader snippet around the same E.
C13_OutputIsBase64Call ==
    (cpc = "exit" /\ NonFlagCount(argv) = 1 /\ Len(argv) <= 2 /\ opened # <<>>
        /\ opened[1] \in cexist) =>
        /\ cexit = <<0>>
        /\ opened = << "story.ulx" >>
        /\ IF Len(argv) = 1
           THEN /\ Len(out) = 1
                /\ Len(out[1]) >= 2
                /\ out[1][1] = "processBase64Zcode('"
                /\ out[1][Len(out[1])] = "');"
                /\ IsBase64Of(SubSeq(out[1], 2, Len(out[1]) - 1), cdata)
                /\ cdata = <<0, 1, 2>> =>
                      out = << << "processBase64Zcode('", "A", "A", "E", "C", "');" >> >>
           ELSE /\ Len(out) = 3
                /\ out[1] \in { << "$(document).ready(function() {" >>,
                                << "Event.observe(window, 'load', function() {" >> }
                /\ Len(out[2]) >= 2
                /\ out[2][1] = "  GiLoad.load_run(null, '"
                /\ out[2][Len(out[2])] = "', 'base64');"
                /\ IsBase64Of(SubSeq(out[2], 2, Len(out[2]) - 1), cdata)
                /\ out[3] = << "});" >>

\* the converter was run on a file with the bytes 0, 1, 2 and has printed
\* the call around AAEC
C13_Witness ==
    /\ cpc = "exit"
    /\ argv = << "story.ulx" >>
    /\ cdata = <<0, 1, 2>>
    /\ out = << << "processBase64Zcode('", "A", "A", "E", "C", "');" >> >>

(***************************************************************************)
(* More properties of a run of build.py, checked under Spec.               *)
(***************************************************************************)
\* C14: within one entry the steps come in the order Start, Write (once per
\* source, in list order), Finish: bytes go to the minifier only after its
\* launch and while its input channel is open, the channel is closed once,
\* after the last source was written and not between two sources, and the
\* wait for the exit begins only after that close.
C14_StartWriteFinishOrder ==
    /\ [](/\ pc \in {"read", "filter", "write"} =>
                /\ stdin = "open"
                /\ Stream(cur) = ConcatFiltered(cur, srcidx - 1)
          /\ pc \in {"wait", "check"} =>
                /\ stdin = "closed"
                /\ ubuf = <<>>
                /\ pending = <<>>)
    /\ [][/\ (piped' # piped \/ (ubuf' # ubuf /\ ubuf' # <<>>)) =>
                /\ stdin = "open"
                /\ nlaunched[cur] = 1
                /\ cur' = cur
                /\ \A i \in Entries : i # cur => piped'[i] = piped[i]
          /\ (stdin # "closed" /\ stdin' = "closed") =>
                /\ stdin = "open"
                /\ srcidx > Len(srcls)
                /\ Stream(cur)' = ConcatFiltered(cur, Len(srcls)) \/ failure' = "WriteError"
          /\ (stdin = "closed" /\ stdin' # "closed") =>
                /\ pc = "popen"
                /\ phase[cur] = "opened"
      ]_vars

\* the first entry waits for its minifier, after its three sources went into
\* the pipe and the channel was closed
C14_Witness ==
    /\ pc = "wait"
    /\ cur = 1
    /\ stdin = "closed"
    /\ piped[1] = ConcatFiltered(1, 3)
    /\ Len(piped[1]) >= 3

\* C15: a Write attempted when the minifier has already exited fails at
\* that Write: the call does not return normally, no byte is accepted and
\* the loop does not go on to the next source or to the close.
C15_WriteToExitedFails ==
    [][(pc = "write" /\ pstate[cur] = "exited") =>
          /\ pc' \notin {"read", "close"}
          /\ srcidx' = srcidx
          /\ ubuf' = ubuf \/ ubuf' = <<>>
      ]_vars

\* C16: when the minifier program cannot be found, Start fails with a
\* launch error before any source of the entry is read and before any byte
\* is written to a pipe, and the run ends in the first entry.
C16_MissingMinifierFailsStart ==
    rjsmin = "missing" =>
        /\ pc \in {"call", "open_target", "popen", "failed"}
        /\ failure \in {"none", "OpenError", "LaunchError"}
        /\ cur = 1
        /\ dat = <<>>
        /\ ubuf = <<>>
        /\ \A i \in Entries : piped[i] = <<>>

\* the targets in the order the claim gives
ExpectedTargets == <<"lib/glkote.min.js", "lib/elkote.min.js", "lib/quixe.min.js">>

\* C17: entries are built in catalog order (glkote.min.js, elkote.min.js,
\* quixe.min.js), each at most once; the report naming an entry's target is
\* printed once, before the target is opened; the reports of a run are the
\* prefix of the catalog's target list up to and including the first
\* failing entry, the whole list when no entry fails.
C17_ReportsArePrefixOfCatalog ==
    /\ [](/\ Len(printed) <= Len(ExpectedTargets)
          /\ printed = SubSeq(ExpectedTargets, 1, Len(printed))
          /\ Len(printed) = IF pc = "call" THEN cur - 1 ELSE cur
          /\ \A i \in Entries :
                /\ nlaunched[i] <= 1
                /\ (target[i] # "old" \/ phase[i] # "none") => i <= Len(printed)
          /\ failure # "none" => /\ printed = SubSeq(ExpectedTargets, 1, cur)
                                 /\ EntryFailed(cur)
                                 /\ \A i \in 1..(cur - 1) : EntryBuilt(i)
          /\ exitcode = <<0>> => /\ printed = ExpectedTargets
                                 /\ \A i \in Entries : EntryBuilt(i))
    /\ [][/\ cur' \in {cur, cur + 1}
          /\ printed' # printed =>
                /\ printed' = Append(printed, ExpectedTargets[cur])
                /\ phase[cur] = "none"
                /\ target[cur] = "old"
                /\ targetfl # "open"
      ]_vars

\* the second entry fails on its missing source after the first was built:
\* two reports
C17_Witness ==
    /\ failure = "ReadError"
    /\ cur = 2
    /\ phase[1] = "built"
    /\ printed = <<"lib/glkote.min.js", "lib/elkote.min.js">>

\* C18: the target of an entry is created or truncated before the entry's
\* minifier is launched and before any of its sources is read; after a
\* launch failure, a missing source, a write failure or a failing minifier
\* the target holds no longer what it held before the run, and the targets
\* of the entries after the failing one are as they were before the run.
C18_TargetTruncatedFirst ==
    /\ \A i \in Entries :
          (nlaunched[i] > 0 \/ phase[i] \notin {"none", "printed"}) => target[i] # "old"
    /\ (pc \in {"popen", "read", "filter", "write", "writing", "close", "closing"}
           /\ pstate[cur] # "exited") => target[cur] = "empty"
    /\ (pc \in {"read", "filter", "write"} \/ dat # <<>>) => target[1] # "old"
    /\ failure \in {"LaunchError", "ReadError", "WriteError", "ProcessError"} =>
          target[cur] # "old"
    /\ \A j \in Entries : j > cur => target[j] = "old"

\* the launch of the second minifier fails: the second target is empty, the
\* third is untouched
C18_Witness ==
    /\ failure = "LaunchError"
    /\ cur = 2
    /\ target = <<"output", "empty", "old">>

=============================================================================
